---- MODULE Spec2Model ----
(***************************************************************************)
(* Model of synplan/mcts/node.py: class Node, the state of one node of the *)
(* retrosynthetic tree search.                                             *)
(*                                                                         *)
(* Python values are records [kind, items, ref]:                           *)
(*   None            kind "None"                                           *)
(*   a tuple         kind "tuple", its elements in items (immutable value) *)
(*   a list          kind "list", ref its address in the store `lists`     *)
(*   a molecule      kind "str", the identifier as the one item            *)
(* A Node object is a function from the names of the attributes it has to  *)
(* their values; an attribute that was never assigned is not in its domain.*)
(***************************************************************************)
EXTENDS Naturals, Sequences, FiniteSets, TLC

VARIABLES nodes, lists, chain, call

vars == <<nodes, lists, chain, call>>

\* Longest pending sequence a caller hands over.
MaxLen == 2
\* Size of the store of list objects (caller lists and their slices).
MaxObjs == 3

\* Molecule identifiers: opaque tokens.
Mol == {"M1", "M2"}
\* The Node instances of a run: two siblings, and the instances of one chain.
Slots == {1, 2}
ChainIds == 1..(MaxLen + 1)

NoneV == [kind |-> "None", items |-> <<>>, ref |-> 0]
TupleV(s) == [kind |-> "tuple", items |-> s, ref |-> 0]
ListV(r) == [kind |-> "list", items |-> <<>>, ref |-> r]
MolV(m) == [kind |-> "str", items |-> <<m>>, ref |-> 0]

SeqUpTo(n) == UNION {[1..k -> Mol] : k \in 0..n}

\* Pending sequences as the signature declares them: a tuple, or the default None.
PendingArgs == {NoneV} \cup {TupleV(s) : s \in SeqUpTo(MaxLen)}
\* Produced sequences: absent, empty, or two new precursors.
ProducedArgs == {NoneV, TupleV(<<>>), TupleV(<<"A", "B">>)}
\* List objects of the caller, handed over in place of a tuple.
ListArgs == {ListV(r) : r \in 1..Len(lists)}

\* The elements of a sequence value; a list is read through the store.
Items(v) == IF v.kind = "list" THEN lists[v.ref] ELSE v.items

\* len(v): defined for tuples and lists, TypeError for None.
PyLenOk(v) == v.kind \in {"tuple", "list"}
PyLen(v) == Len(Items(v))

\* v[0]
PyFirst(v) == MolV(Items(v)[1])

\* v[1:] : a new tuple, or a new list object at the next free address.
PyRest(v) == IF v.kind = "list" THEN ListV(Len(lists) + 1) ELSE TupleV(Tail(v.items))
PyRestStore(v) == IF v.kind = "list" THEN Append(lists, Tail(lists[v.ref])) ELSE lists

\* str(v) as the f-string renders it.
PyStr(v) ==
    CASE v.kind = "None" -> <<"None">>
      [] v.kind = "tuple" -> <<"(">> \o v.items \o (IF Len(v.items) = 1 THEN <<",">> ELSE <<>>) \o <<")">>
      [] v.kind = "list" -> <<"[">> \o lists[v.ref] \o <<"]">>
      [] OTHER -> v.items

\* Variants of Node.__init__ with one slip each.
\* The current precursor taken from the wrong end: precursors_to_expand[-1].
Node_init_last(pending, produced) ==
    IF ~PyLenOk(pending)
    THEN [raised |-> "TypeError",
          self |-> [precursors_to_expand |-> pending, new_precursors |-> produced],
          store |-> lists]
    ELSE IF PyLen(pending) = 0
    THEN [raised |-> "",
          self |-> [precursors_to_expand |-> pending, new_precursors |-> produced,
                    curr_precursor |-> TupleV(<<>>)],
          store |-> lists]
    ELSE [raised |-> "",
          self |-> [precursors_to_expand |-> pending, new_precursors |-> produced,
                    curr_precursor |-> MolV(Items(pending)[PyLen(pending)]),
                    next_precursor |-> PyRest(pending)],
          store |-> PyRestStore(pending)]

\* The remainder cut at the wrong end: precursors_to_expand[:-1].
Node_init_droplast(pending, produced) ==
    IF ~PyLenOk(pending)
    THEN [raised |-> "TypeError",
          self |-> [precursors_to_expand |-> pending, new_precursors |-> produced],
          store |-> lists]
    ELSE IF PyLen(pending) = 0
    THEN [raised |-> "",
          self |-> [precursors_to_expand |-> pending, new_precursors |-> produced,
                    curr_precursor |-> TupleV(<<>>)],
          store |-> lists]
    ELSE [raised |-> "",
          self |-> [precursors_to_expand |-> pending, new_precursors |-> produced,
                    curr_precursor |-> PyFirst(pending),
                    next_precursor |-> TupleV(SubSeq(Items(pending), 1, PyLen(pending) - 1))],
          store |-> lists]

\* The empty branch also assigns next_precursor = tuple().
Node_init_uniform(pending, produced) ==
    IF ~PyLenOk(pending)
    THEN [raised |-> "TypeError",
          self |-> [precursors_to_expand |-> pending, new_precursors |-> produced],
          store |-> lists]
    ELSE IF PyLen(pending) = 0
    THEN [raised |-> "",
          self |-> [precursors_to_expand |-> pending, new_precursors |-> produced,
                    curr_precursor |-> TupleV(<<>>), next_precursor |-> TupleV(<<>>)],
          store |-> lists]
    ELSE [raised |-> "",
          self |-> [precursors_to_expand |-> pending, new_precursors |-> produced,
                    curr_precursor |-> PyFirst(pending),
                    next_precursor |-> PyRest(pending)],
          store |-> PyRestStore(pending)]

\* The test written `if not precursors_to_expand`: None passes as empty.
Node_init_falsy(pending, produced) ==
    IF ~PyLenOk(pending) \/ PyLen(pending) = 0
    THEN [raised |-> "",
          self |-> [precursors_to_expand |-> pending, new_precursors |-> produced,
                    curr_precursor |-> TupleV(<<>>)],
          store |-> lists]
    ELSE [raised |-> "",
          self |-> [precursors_to_expand |-> pending, new_precursors |-> produced,
                    curr_precursor |-> PyFirst(pending),
                    next_precursor |-> PyRest(pending)],
          store |-> PyRestStore(pending)]

\* The empty branch assigns nothing.
Node_init_nocurr(pending, produced) ==
    IF ~PyLenOk(pending)
    THEN [raised |-> "TypeError",
          self |-> [precursors_to_expand |-> pending, new_precursors |-> produced],
          store |-> lists]
    ELSE IF PyLen(pending) = 0
    THEN [raised |-> "",
          self |-> [precursors_to_expand |-> pending, new_precursors |-> produced],
          store |-> lists]
    ELSE [raised |-> "",
          self |-> [precursors_to_expand |-> pending, new_precursors |-> produced,
                    curr_precursor |-> PyFirst(pending),
                    next_precursor |-> PyRest(pending)],
          store |-> PyRestStore(pending)]

\* Node.__init__: the outcome (raised = "" when it returns), the object as
\* far as it was initialised, and the store afterwards.
Node_init(pending, produced) ==
    IF ~PyLenOk(pending)
    THEN [raised |-> "TypeError",
          self |-> [precursors_to_expand |-> pending, new_precursors |-> produced],
          store |-> lists]
    ELSE IF PyLen(pending) = 0
    THEN [raised |-> "",
          self |-> [precursors_to_expand |-> pending, new_precursors |-> produced,
                    curr_precursor |-> TupleV(<<>>)],
          store |-> lists]
    ELSE [raised |-> "",
          self |-> [precursors_to_expand |-> pending, new_precursors |-> produced,
                    curr_precursor |-> PyFirst(pending),
                    next_precursor |-> PyRest(pending)],
          store |-> PyRestStore(pending)]

\* A size that counts the precursors queued behind the current one.
Node_len_queued(self) ==
    IF "next_precursor" \in DOMAIN self THEN PyLen(self.next_precursor) ELSE 0

\* Node.__len__
Node_len(self) == PyLen(self.precursors_to_expand)

\* Node.__repr__
Node_repr(self) ==
    <<"New precursors: ">> \o PyStr(self.new_precursors) \o <<"\n">>
    \o <<"Precursors to expand: ">> \o PyStr(self.precursors_to_expand) \o <<"\n">>

\* A terminal test that also wants the produced sequence to be empty.
Node_is_solved_both(self) ==
    PyLen(self.precursors_to_expand) = 0 /\ self.new_precursors.items = <<>>

\* Node.is_solved
Node_is_solved(self) == PyLen(self.precursors_to_expand) = 0

Bound == DOMAIN nodes

\* hasattr(n, name)
Has(n, name) == name \in DOMAIN n

Bind(f, v, x) == [w \in (DOMAIN f) \cup {v} |-> IF w = v THEN x ELSE f[w]]

NoCall == [op |-> "none", slot |-> 0, args |-> <<>>, outcome |-> "ok", ret |-> NoneV]

Init ==
    /\ nodes = [w \in {} |-> NoneV]
    /\ lists = <<>>
    /\ chain = [w \in {} |-> NoneV]
    /\ call = NoCall

\* Instance v is created: v = Node(pending, produced)
Construct(v, pending, produced) ==
    LET r == Node_init(pending, produced) IN
    /\ v \notin Bound
    /\ Len(r.store) <= MaxObjs
    /\ call' = [op |-> "Node", slot |-> v, args |-> <<pending, produced>>,
                outcome |-> IF r.raised = "" THEN "ok" ELSE r.raised, ret |-> NoneV]
    /\ IF r.raised = ""
       THEN /\ nodes' = Bind(nodes, v, r.self)
            /\ lists' = r.store
            /\ chain' = Bind(chain, v, [P |-> Items(pending), k |-> 0])
       ELSE UNCHANGED <<nodes, lists, chain>>

\* len(v): Node.__len__, which fails where len() of the field fails.
CallLen(v) ==
    /\ v \in Bound
    /\ call' = [op |-> "len", slot |-> v, args |-> <<>>,
                outcome |-> IF PyLenOk(nodes[v].precursors_to_expand) THEN "ok" ELSE "TypeError",
                ret |-> IF PyLenOk(nodes[v].precursors_to_expand)
                        THEN Node_len(nodes[v]) ELSE NoneV]
    /\ UNCHANGED <<nodes, lists, chain>>

\* v.is_solved()
CallIsSolved(v) ==
    /\ v \in Bound
    /\ call' = [op |-> "is_solved", slot |-> v, args |-> <<>>,
                outcome |-> IF PyLenOk(nodes[v].precursors_to_expand) THEN "ok" ELSE "TypeError",
                ret |-> IF PyLenOk(nodes[v].precursors_to_expand)
                        THEN Node_is_solved(nodes[v]) ELSE NoneV]
    /\ UNCHANGED <<nodes, lists, chain>>

\* A rendering that consumes what it prints.
CallRepr_consuming(v) ==
    /\ v \in Bound
    /\ call' = [op |-> "repr", slot |-> v, args |-> <<>>, outcome |-> "ok",
                ret |-> Node_repr(nodes[v])]
    /\ nodes' = [nodes EXCEPT ![v].new_precursors = TupleV(<<>>)]
    /\ UNCHANGED <<lists, chain>>

\* repr(v)
CallRepr(v) ==
    /\ v \in Bound
    /\ call' = [op |-> "repr", slot |-> v, args |-> <<>>, outcome |-> "ok",
                ret |-> Node_repr(nodes[v])]
    /\ UNCHANGED <<nodes, lists, chain>>

Attrs == {"precursors_to_expand", "new_precursors", "curr_precursor", "next_precursor"}

\* v.name : the value, or AttributeError when __init__ never assigned it.
GetAttr(v, name) ==
    /\ v \in Bound
    /\ call' = [op |-> "getattr", slot |-> v, args |-> <<name>>,
                outcome |-> IF name \in DOMAIN nodes[v] THEN "ok" ELSE "AttributeError",
                ret |-> IF name \in DOMAIN nodes[v] THEN nodes[v][name] ELSE NoneV]
    /\ UNCHANGED <<nodes, lists, chain>>

\* Instance w is created: w = Node(v.next_precursor, produced), while v is
\* not solved: the first precursor of v is retired and the second becomes
\* the current one.
Successor(v, w, produced) ==
    /\ v \in Bound
    /\ w \notin Bound
    /\ PyLenOk(nodes[v].precursors_to_expand)
    /\ ~Node_is_solved(nodes[v])
    /\ "next_precursor" \in DOMAIN nodes[v]
    /\ LET r == Node_init(nodes[v].next_precursor, produced) IN
       /\ r.raised = ""
       /\ Len(r.store) <= MaxObjs
       /\ call' = [op |-> "Node", slot |-> w, args |-> <<nodes[v].next_precursor, produced>>,
                   outcome |-> "ok", ret |-> NoneV]
       /\ nodes' = Bind(nodes, w, r.self)
       /\ lists' = r.store
       /\ chain' = Bind(chain, w, [P |-> chain[v].P, k |-> chain[v].k + 1])

Next ==
    \/ \E v \in Slots, p \in PendingArgs, q \in ProducedArgs : Construct(v, p, q)
    \/ \E v \in Slots : CallLen(v)
    \/ \E v \in Slots : CallIsSolved(v)
    \/ \E v \in Slots : CallRepr(v)
    \/ \E v \in Slots, name \in Attrs : GetAttr(v, name)
    \/ \E v \in Slots, w \in Slots, q \in ProducedArgs : Successor(v, w, q)

Spec == Init /\ [][Next]_vars

\* The search driver descending one chain: the root, then one successor
\* after the other.
IsLast(v) == v \in Bound /\ (v + 1) \notin Bound

NextChain ==
    \/ \E p \in PendingArgs, q \in ProducedArgs : Bound = {} /\ Construct(1, p, q)
    \/ \E v \in ChainIds, q \in ProducedArgs :
          IsLast(v) /\ (v + 1) \in ChainIds /\ Successor(v, v + 1, q)
    \/ \E v \in ChainIds : CallLen(v)
    \/ \E v \in ChainIds : CallIsSolved(v)
    \/ \E v \in ChainIds : GetAttr(v, "curr_precursor")

SpecChain == Init /\ [][NextChain]_vars

\* The caller creates a list object.
NewList(s) ==
    /\ Len(lists) < MaxObjs
    /\ lists' = Append(lists, s)
    /\ call' = [op |-> "list", slot |-> 0, args |-> <<>>, outcome |-> "ok", ret |-> NoneV]
    /\ UNCHANGED <<nodes, chain>>

\* A list object the caller created itself, not a slice a node made.
CallerOwns(r) ==
    /\ r \in 1..Len(lists)
    /\ \A v \in Bound : Has(nodes[v], "next_precursor") => nodes[v].next_precursor.ref # r

\* The caller appends to a list object of its own: r.append(m)
ListAppend(r, m) ==
    /\ CallerOwns(r)
    /\ Len(lists[r]) < MaxLen
    /\ lists' = [lists EXCEPT ![r] = Append(@, m)]
    /\ call' = [op |-> "append", slot |-> 0, args |-> <<>>, outcome |-> "ok", ret |-> NoneV]
    /\ UNCHANGED <<nodes, chain>>

\* The caller removes the first element of a list object of its own: r.pop(0)
ListPop(r) ==
    /\ CallerOwns(r)
    /\ lists[r] # <<>>
    /\ lists' = [lists EXCEPT ![r] = Tail(@)]
    /\ call' = [op |-> "pop", slot |-> 0, args |-> <<>>, outcome |-> "ok", ret |-> NoneV]
    /\ UNCHANGED <<nodes, chain>>

\* A caller that hands list objects to the constructor and keeps using them.
NextShared ==
    \/ \E s \in SeqUpTo(MaxLen) : NewList(s)
    \/ \E r \in 1..MaxObjs, m \in Mol : ListAppend(r, m)
    \/ \E r \in 1..MaxObjs : ListPop(r)
    \/ \E v \in Slots, p \in ListArgs : Construct(v, p, TupleV(<<>>))
    \/ \E v \in Slots : CallLen(v)
    \/ \E v \in Slots : CallIsSolved(v)

SpecShared == Init /\ [][NextShared]_vars

(***************************************************************************)
(* Properties.                                                             *)
(***************************************************************************)

\* The instance the last call created or was made on.
Self == nodes[call.slot]
Created == call.op = "Node" /\ call.outcome = "ok"

\* s is t without its first element, in the same order.
IsRestOf(s, t) == Len(s) = Len(t) - 1 /\ \A i \in 1..Len(s) : s[i] = t[i + 1]

\* C1: constructing a node from a non-empty pending sequence P (with any
\* produced sequence) gives curr_precursor = P[0] and next_precursor = P[1:]
\* in the same order, so that [curr_precursor] + next_precursor = P; every
\* instance built from a non-empty sequence keeps that shape.
C1_HeadAndRest ==
    /\ (Created /\ call.args[1].items # <<>>) =>
          LET P == call.args[1].items IN
          /\ Self.curr_precursor = MolV(P[1])
          /\ Has(Self, "next_precursor")
          /\ Self.next_precursor.kind = "tuple"
          /\ IsRestOf(Self.next_precursor.items, P)
          /\ Self.curr_precursor.items \o Self.next_precursor.items = P
    /\ \A v \in Bound :
          nodes[v].precursors_to_expand.items # <<>> =>
             /\ Has(nodes[v], "next_precursor")
             /\ nodes[v].curr_precursor.kind = "str"
             /\ nodes[v].curr_precursor.items \o nodes[v].next_precursor.items
                   = nodes[v].precursors_to_expand.items

C1_Witness ==
    /\ Created
    /\ Len(call.args[1].items) = 2
    /\ call.args[1].items[1] # call.args[1].items[2]
    /\ call.args[2] = TupleV(<<"A", "B">>)
    /\ Self.curr_precursor = MolV(call.args[1].items[1])

\* C2: on a constructed node is_solved() returns true exactly when
\* precursors_to_expand is empty: true for a node built from the empty
\* pending sequence, false for one built from a non-empty one.
C2_SolvedIffEmpty ==
    /\ (call.op = "is_solved") =>
          /\ call.outcome = "ok"
          /\ call.ret = (Self.precursors_to_expand.items = <<>>)
    /\ Created => (Node_is_solved(Self) <=> call.args[1].items = <<>>)

C2_Witness ==
    /\ call.op = "is_solved"
    /\ call.ret = TRUE
    /\ \E w \in Bound : nodes[w].precursors_to_expand.items # <<>> /\ ~Node_is_solved(nodes[w])

\* C3: the size of a constructed node is the number of elements of
\* precursors_to_expand, so it is 0 exactly when is_solved() is true and
\* positive exactly when is_solved() is false.
C3_SizeIsCount ==
    /\ (call.op = "len") =>
          /\ call.outcome = "ok"
          /\ call.ret = Cardinality(DOMAIN Self.precursors_to_expand.items)
          /\ (call.ret = 0) <=> Node_is_solved(Self)
          /\ (call.ret > 0) <=> ~Node_is_solved(Self)
    /\ Created => Node_len(Self) = Cardinality(DOMAIN call.args[1].items)

C3_Witness ==
    /\ call.op = "len"
    /\ call.ret = 2
    /\ \E w \in Bound : Node_len(nodes[w]) = 0 /\ Node_is_solved(nodes[w])

\* C4: two nodes built from the same pending sequence and different
\* produced sequences give the same is_solved() and the same size.
C4_ProducedIgnored ==
    \A v \in Bound, w \in Bound :
       (/\ nodes[v].precursors_to_expand = nodes[w].precursors_to_expand
        /\ nodes[v].new_precursors # nodes[w].new_precursors) =>
          /\ Node_is_solved(nodes[v]) = Node_is_solved(nodes[w])
          /\ Node_len(nodes[v]) = Node_len(nodes[w])

C4_Witness ==
    /\ Bound = Slots
    /\ nodes[1].precursors_to_expand = TupleV(<<>>)
    /\ nodes[2].precursors_to_expand = TupleV(<<>>)
    /\ nodes[1].new_precursors = TupleV(<<>>)
    /\ nodes[2].new_precursors = TupleV(<<"A", "B">>)
    /\ call.op = "is_solved"

\* C5: constructing a node from the empty pending sequence gives
\* curr_precursor = the empty sequence, no next_precursor attribute,
\* new_precursors as supplied, is_solved() true and size 0.
C5_EmptyPending ==
    /\ (Created /\ call.args[1].items = <<>>) =>
          /\ Self.curr_precursor = TupleV(<<>>)
          /\ ~Has(Self, "next_precursor")
          /\ Self.new_precursors = call.args[2]
          /\ Node_is_solved(Self)
          /\ Node_len(Self) = 0
    /\ (call.op = "getattr" /\ call.args[1] = "next_precursor"
           /\ Self.precursors_to_expand.items = <<>>) => call.outcome = "AttributeError"

C5_Witness ==
    /\ Created
    /\ call.args[1] = TupleV(<<>>)
    /\ call.args[2] = TupleV(<<"A", "B">>)
    /\ Self.new_precursors = TupleV(<<"A", "B">>)

\* C6: construction with the pending sequence absent fails with the
\* missing-input error (Python's TypeError from len(None)) and leaves no
\* node, whatever the produced sequence; with the pending sequence present
\* it succeeds, also when the produced sequence is absent.
C6_MissingPending ==
    (call.op = "Node") =>
       /\ (call.args[1] = NoneV) =>
             (call.outcome = "TypeError" /\ call.slot \notin Bound)
       /\ (call.args[1] # NoneV) =>
             (/\ call.outcome = "ok"
              /\ call.slot \in Bound
              /\ Self.new_precursors = call.args[2])

C6_Witness ==
    /\ call.op = "Node"
    /\ call.args[1] = NoneV
    /\ call.args[2] = TupleV(<<"A", "B">>)
    /\ call.outcome = "TypeError"
    /\ \E w \in Bound : nodes[w].new_precursors = NoneV

\* C7 as claimed: on every constructed node the size query, is_solved(),
\* and the access to curr_precursor and to next_precursor all succeed.
C7_AllTotal ==
    (\/ call.op \in {"len", "is_solved", "repr"}
     \/ (call.op = "getattr" /\ call.args[1] \in {"curr_precursor", "next_precursor"}))
       => call.outcome = "ok"

\* C7, amended: on every constructed node the size query, is_solved(), the
\* rendering and the access to curr_precursor succeed; the access to
\* next_precursor succeeds exactly when precursors_to_expand is non-empty,
\* and raises AttributeError on a node built from the empty sequence.
C7_TotalButNext ==
    /\ call.op \in {"len", "is_solved", "repr"} => call.outcome = "ok"
    /\ (call.op = "getattr" /\ call.args[1] \in {"curr_precursor", "precursors_to_expand", "new_precursors"})
          => call.outcome = "ok"
    /\ (call.op = "getattr" /\ call.args[1] = "next_precursor") =>
          /\ (Self.precursors_to_expand.items # <<>>) => call.outcome = "ok"
          /\ (Self.precursors_to_expand.items = <<>>) => call.outcome = "AttributeError"

C7_Witness ==
    /\ call.op = "getattr"
    /\ call.args[1] = "next_precursor"
    /\ call.outcome = "AttributeError"
    /\ Self.precursors_to_expand = TupleV(<<>>)
    /\ \E w \in Bound : Has(nodes[w], "next_precursor")

\* C8: no call on an instance changes its fields: every step leaves each
\* existing instance as it is (precursors_to_expand, new_precursors,
\* curr_precursor, next_precursor, and with them its solved status), and a
\* rendering directly after a rendering of the same instance is the same text.
C8_Frame ==
    [][/\ \A v \in Bound :
            /\ v \in Bound'
            /\ DOMAIN nodes'[v] = DOMAIN nodes[v]
            /\ \A name \in DOMAIN nodes[v] : nodes'[v][name] = nodes[v][name]
            /\ Node_is_solved(nodes[v])' = Node_is_solved(nodes[v])
       /\ (call.op = "repr" /\ call'.op = "repr" /\ call'.slot = call.slot)
            => call'.ret = call.ret]_vars

C8_Witness ==
    /\ call.op = "repr"
    /\ Self.precursors_to_expand.items # <<>>
    /\ Self.new_precursors = TupleV(<<"A", "B">>)
    /\ call.ret = Node_repr(Self)

\* C9: in the chain S0 = Node(P, _), S(k+1) = Node(S(k).next_precursor, _)
\* over a pending sequence P of length n, S(k) has curr_precursor = P[k]
\* and size n - k and is unsolved for every k < n, and S(n) is solved;
\* no instance of the chain lies beyond S(n), and below S(n) the next
\* instance can always be built.
C9_Chain ==
    \A v \in Bound :
       LET P == chain[v].P
           k == chain[v].k
       IN /\ k = v - 1
          /\ P = chain[1].P
          /\ k <= Len(P)
          /\ (k < Len(P)) =>
                /\ nodes[v].curr_precursor = MolV(P[k + 1])
                /\ ~Node_is_solved(nodes[v])
                /\ Node_len(nodes[v]) = Len(P) - k
          /\ (k = Len(P)) => (Node_is_solved(nodes[v]) /\ Node_len(nodes[v]) = 0)
          /\ (call.op = "is_solved" /\ call.slot = v) => (call.ret = (k = Len(P)))
          /\ (k < Len(P) /\ IsLast(v)) => ENABLED Successor(v, v + 1, TupleV(<<>>))

C9_Witness ==
    \E v \in Bound :
       /\ chain[v].k = 2
       /\ chain[v].P = <<"M1", "M2">>
       /\ nodes[1].curr_precursor = MolV("M1")
       /\ nodes[2].curr_precursor = MolV("M2")
       /\ Node_is_solved(nodes[v])
       /\ call.op = "is_solved"
       /\ call.slot = v

\* C10 as claimed: a node built from a non-empty pending sequence has
\* precursors_to_expand = [curr_precursor] + next_precursor in every later
\* state, also after the caller changes the sequence object it handed over.
C10_AlwaysReconstructs ==
    \A v \in Bound :
       Has(nodes[v], "next_precursor") =>
          Items(nodes[v].precursors_to_expand)
             = nodes[v].curr_precursor.items \o Items(nodes[v].next_precursor)

====
